---- MODULE Spec2Model ----
(***************************************************************************)
(* Model of the pull-request review pipeline of script/code_review.py and  *)
(* of the earlier variant kept at the top of "script/code_review - Copy.py"*)
(* (raw diff, 204 / comments / message responses, line-anchored comments). *)
(*                                                                         *)
(* Python values are tagged records ([t |-> "str", v |-> ...]) so that     *)
(* values of different Python types can be compared.  A text the code      *)
(* scans (a patch, a diff, an annotation's 'line') is a sequence of        *)
(* one-character strings; a text the code only passes on or compares as a  *)
(* whole (message content, comment body) is a TLA+ string.                 *)
(*                                                                         *)
(* The login script script/get_cookies_selenium.py, which reads the        *)
(* session cookie and runs code_review.py with it, is modelled on its own. *)
(***************************************************************************)
EXTENDS Integers, Sequences, FiniteSets, TLC

VARIABLES
    variant,          \* which script runs: "code_review" or "copy"
    jsonErrIsReqExc,  \* installed requests: is Response.json()'s error a RequestException
    env,              \* which configuration values are set
    pc,               \* position of the process in the script
    relevant_files,   \* main: relevant_files
    idx,              \* main: 1-based index of the loop's current file
    cur,              \* index of the file that diff, feedback, outcome and review are of
    diff,             \* main: added_lines / diff of the current file
    feedback,         \* main: feedback of the current file
    outcome,          \* what the backend POST of the current file came to
    review,           \* the review request post_review built for the current file
    backendCalls,     \* per file: backend POSTs made
    reviewPosts,      \* per file: review-creation POSTs made
    exit_code,        \* process exit status, once it has ended
    traceback,        \* the uncaught exception that ended the process, if any
    extractCall,      \* a call of fetch_added_lines_only on its own
    positionCall,     \* a call of post_review's position scan on its own
    changed_files,    \* main: files, the list the hosting API answered with
    calls,            \* the HTTP requests made so far, in order
    publishCall,      \* a call of post_review's comment building on its own
    login             \* the login script get_cookies_selenium.py: its position and effects

vars == << variant, jsonErrIsReqExc, env, pc, relevant_files, idx, cur, diff, feedback,
           outcome, review, backendCalls, reviewPosts, exit_code, traceback,
           extractCall, positionCall, changed_files, calls, publishCall, login >>

pipelineVars == << variant, jsonErrIsReqExc, env, pc, relevant_files, idx, cur, diff,
                   feedback, outcome, review, backendCalls, reviewPosts, exit_code,
                   traceback, changed_files, calls >>

(***************************************************************************)
(* Bounds of the model.                                                    *)
(***************************************************************************)
MaxPatchLen == 8
MaxDiffLen == 6
MaxLineLen == 2
MaxFiles == 2
MaxComments == 2
MaxPublishDiffLen == 3
MaxAnnLen == 1
MaxCookies == 2
MaxValueLen == 1

(***************************************************************************)
(* Texts.                                                                  *)
(***************************************************************************)
LF == "\n"
CR == "\r"

Texts(alphabet, n) == UNION { [1..k -> alphabet] : k \in 0..n }

\* str.startswith(prefix)
StartsWith(s, prefix) ==
    /\ Len(s) >= Len(prefix)
    /\ SubSeq(s, 1, Len(prefix)) = prefix

\* str.endswith(suffix)
EndsWith(s, suffix) ==
    /\ Len(s) >= Len(suffix)
    /\ SubSeq(s, Len(s) - Len(suffix) + 1, Len(s)) = suffix

\* sub in s
Contains(s, sub) ==
    \E i \in 0..(Len(s) - Len(sub)) : SubSeq(s, i + 1, i + Len(sub)) = sub

\* index of the first character of s that is in set, Len(s) + 1 when none is
FirstIn(s, set) ==
    IF \E i \in 1..Len(s) : s[i] \in set
    THEN CHOOSE i \in 1..Len(s) : s[i] \in set /\ \A j \in 1..(i - 1) : s[j] \notin set
    ELSE Len(s) + 1

\* str.split(sep) for a one-character sep: always at least one element
RECURSIVE Split(_, _)
Split(s, sep) ==
    LET j == FirstIn(s, {sep})
    IN  IF j > Len(s)
        THEN << s >>
        ELSE << SubSeq(s, 1, j - 1) >> \o Split(SubSeq(s, j + 1, Len(s)), sep)

\* str.splitlines(): breaks at \n, \r and \r\n, no element for a final line break
RECURSIVE SplitLines(_)
SplitLines(s) ==
    IF s = << >>
    THEN << >>
    ELSE LET j == FirstIn(s, {LF, CR})
             eol == IF j > Len(s) THEN 0
                    ELSE IF s[j] = CR /\ j < Len(s) /\ s[j + 1] = LF THEN 2
                    ELSE 1
         IN  << SubSeq(s, 1, j - 1) >> \o SplitLines(SubSeq(s, j + eol, Len(s)))

\* sep.join(lines)
RECURSIVE Join(_, _)
Join(lines, sep) ==
    IF lines = << >> THEN << >>
    ELSE IF Len(lines) = 1 THEN lines[1]
    ELSE lines[1] \o << sep >> \o Join(Tail(lines), sep)

\* dict.get(key, default)
DictGet(d, key, default) == IF key \in DOMAIN d THEN d[key] ELSE default

(***************************************************************************)
(* Diff Extractor.                                                         *)
(***************************************************************************)
\* mutant: the '+++' header test left out
IsAddedLineNoHeaderTest(line) == StartsWith(line, << "+" >>)

IsAddedLine(line) == StartsWith(line, << "+" >>) /\ ~StartsWith(line, << "+", "+", "+" >>)

fetch_added_lines_only(file) ==
    LET patch == DictGet(file, "patch", << >>)
        added_lines == SelectSeq(SplitLines(patch), IsAddedLine)
    IN  Join(added_lines, LF)

fetch_diff(file) == DictGet(file, "patch", << >>)

PatchChars == {"+", "a", LF, CR}

\* a changed-file record, with or without its 'patch' key
FileOf(name, patch) == [filename |-> name, patch |-> patch]
FileWithoutPatch(name) == [filename |-> name]

(***************************************************************************)
(* Python values and the outcome of a function call.                       *)
(***************************************************************************)
PyNone == [t |-> "None"]
PyStr(s) == [t |-> "str", v |-> s]
PyInt(n) == [t |-> "int", v |-> n]
PyList(l) == [t |-> "list", v |-> l]
PyDict(f) == [t |-> "dict", v |-> f]
EmptyDict == PyDict(<< >>)

\* bool(x)
Truthy(x) ==
    CASE x.t = "None" -> FALSE
      [] x.t = "str"  -> x.v # ""
      [] x.t = "int"  -> x.v # 0
      [] x.t = "list" -> Len(x.v) > 0
      [] x.t = "dict" -> DOMAIN x.v # {}

Return(v) == [t |-> "return", v |-> v]
Raise(exc) == [t |-> "raise", exc |-> exc]

\* does  key in x  evaluate (a str key), and to what
InRaises(x) == x.t \in {"None", "int"}
PyIn(key, x) ==
    CASE x.t = "dict" -> key \in DOMAIN x.v
      [] x.t = "list" -> \E i \in 1..Len(x.v) : x.v[i].t = "str" /\ x.v[i].v = key
      [] OTHER        -> FALSE

\* Response.raise_for_status() raises HTTPError
RaisesForStatus(status) == status >= 400 /\ status < 600

Sentinel == "Everything looks good."

(***************************************************************************)
(* Feedback Requester.  The argument is what requests.post came to: an     *)
(* exception of requests, or a response with a status and a body.          *)
(***************************************************************************)
\* mutant: the last choice instead of the first
LastChoiceContent(response_data) ==
    LET choices == response_data.v["choices"].v
        last == choices[Len(choices)]
    IN  IF last.t # "dict" THEN Raise("TypeError")
        ELSE IF "message" \notin DOMAIN last.v THEN Raise("KeyError")
        ELSE IF last.v["message"].t # "dict" THEN Raise("TypeError")
        ELSE IF "content" \notin DOMAIN last.v["message"].v THEN Raise("KeyError")
        ELSE Return(last.v["message"].v["content"])

\* response_data["choices"][0]["message"]["content"]
FirstChoiceContent(response_data) ==
    LET first == response_data.v["choices"].v[1]
    IN  IF first.t # "dict" THEN Raise("TypeError")
        ELSE IF "message" \notin DOMAIN first.v THEN Raise("KeyError")
        ELSE IF first.v["message"].t # "dict" THEN Raise("TypeError")
        ELSE IF "content" \notin DOMAIN first.v["message"].v THEN Raise("KeyError")
        ELSE Return(first.v["message"].v["content"])

\* script/code_review.py
send_diff_to_openai(o, jsonErrCaught) ==
    IF o.kind = "exception" THEN Return(PyNone)
    ELSE IF RaisesForStatus(o.status) THEN Return(PyNone)
    ELSE IF ~o.body.parses
         THEN (IF jsonErrCaught THEN Return(PyNone) ELSE Raise("JSONDecodeError"))
    ELSE LET response_data == o.body.json
         IN  IF InRaises(response_data) THEN Raise("TypeError")
             ELSE IF ~PyIn("choices", response_data) THEN Return(PyNone)
             ELSE IF response_data.t # "dict" THEN Raise("TypeError")
             ELSE IF response_data.v["choices"].t # "list" THEN Raise("TypeError")
             ELSE IF Len(response_data.v["choices"].v) > 0
                  THEN FirstChoiceContent(response_data)
                  ELSE Return(PyNone)

\* script/code_review - Copy.py, first variant
send_diff_to_openai_copy(o) ==
    IF o.kind = "exception" THEN Return(PyNone)
    ELSE IF o.status = 204 THEN Return(PyStr(Sentinel))
    ELSE IF RaisesForStatus(o.status) THEN Return(PyNone)
    ELSE IF ~o.body.parses THEN Return(PyNone)
    ELSE LET response_data == o.body.json
         IN  IF InRaises(response_data) THEN Raise("TypeError")
             ELSE IF PyIn("comments", response_data) /\ response_data.t # "dict"
                  THEN Raise("TypeError")
             ELSE IF PyIn("comments", response_data) /\ Truthy(response_data.v["comments"])
                  THEN Return(response_data.v["comments"])
             ELSE IF response_data.t = "dict" /\ PyIn("message", response_data)
                  THEN Return(response_data.v["message"])
             ELSE Return(response_data)

\* mutant: a request that ended in an exception is made again, three times in all
RetryAfterException(o, attempts) == o.kind = "exception" /\ attempts < 3

\* mutant: the request is sent again after a 200 answer
RetryAfterAnswer(o, attempts) ==
    o.kind = "response" /\ o.status = 200 /\ attempts < 2

\* does send_diff_to_openai post again after this outcome: it has no loop
RetryAfter(o, attempts) == FALSE

(***************************************************************************)
(* Review Publisher.                                                       *)
(***************************************************************************)
\* mutant: the general comment is anchored at position 0
review_comments_at_zero(content, file) ==
    << [path |-> file.filename, position |-> 0, body |-> content] >>

\* script/code_review.py: the single general comment at the start of the diff
review_comments(content, file) ==
    << [path |-> file.filename, position |-> 1, body |-> content] >>

\* the loop of post_review (Copy) over diff_lines: i is idx + 1
RECURSIVE ScanFrom(_, _, _, _)
ScanFrom(diff_lines, lineText, i, position) ==
    IF i > Len(diff_lines) THEN position
    ELSE ScanFrom(diff_lines, lineText, i + 1,
                  IF StartsWith(diff_lines[i], << "+" >>) /\ Contains(diff_lines[i], lineText)
                  THEN i
                  ELSE position)

\* mutant: the index of enumerate, not idx + 1
ResolvePositionZeroBased(diffText, lineText) ==
    LET p == ScanFrom(Split(diffText, LF), lineText, 1, 0)
    IN  IF p = 0 THEN 0 ELSE p - 1

\* mutant: an annotation no line matches is anchored at the first line
ResolvePositionDefaultOne(diffText, lineText) ==
    ScanFrom(Split(diffText, LF), lineText, 1, 1)

\* mutant: a line matches whether or not it is an added line
ResolvePositionAnyLine(diffText, lineText) ==
    LET diff_lines == Split(diffText, LF)
        hits == { i \in 1..Len(diff_lines) : Contains(diff_lines[i], lineText) }
    IN  IF hits = {} THEN 0 ELSE CHOOSE i \in hits : \A j \in hits : i >= j

\* mutant: the scan stops at the first match
ResolvePositionFirst(diffText, lineText) ==
    LET diff_lines == Split(diffText, LF)
        hits == { i \in 1..Len(diff_lines) :
                    StartsWith(diff_lines[i], << "+" >>) /\ Contains(diff_lines[i], lineText) }
    IN  IF hits = {} THEN 0 ELSE CHOOSE i \in hits : \A j \in hits : i <= j

\* the position post_review (Copy) gives a comment whose 'line' is lineText
ResolvePosition(diffText, lineText) == ScanFrom(Split(diffText, LF), lineText, 1, 0)

\* what evaluating comment['line'] in line and comment['body'] raises, "" if nothing
AnnotationError(comment) ==
    IF comment.t # "dict" THEN "TypeError"
    ELSE IF "line" \notin DOMAIN comment.v THEN "KeyError"
    ELSE IF comment.v["line"].t # "str" THEN "TypeError"
    ELSE IF "body" \notin DOMAIN comment.v THEN "KeyError"
    ELSE ""

\* script/code_review - Copy.py: the comments of the review, or the exception
review_comments_copy(comments, file, diffText) ==
    IF comments.t = "str" /\ comments.v = Sentinel
    THEN Return(<< [path |-> file.filename, position |-> 1, body |-> comments] >>)
    ELSE IF comments.t # "list" THEN Raise("TypeError")
    ELSE IF \E i \in 1..Len(comments.v) : AnnotationError(comments.v[i]) # ""
    THEN Raise(AnnotationError(comments.v[
             CHOOSE i \in 1..Len(comments.v) :
                /\ AnnotationError(comments.v[i]) # ""
                /\ \A j \in 1..(i - 1) : AnnotationError(comments.v[j]) = ""]))
    ELSE Return([i \in 1..Len(comments.v) |->
                   [path |-> file.filename,
                    position |-> ResolvePosition(diffText, comments.v[i].v["line"].v),
                    body |-> comments.v[i].v["body"]]])

\* mutant: one review-creation request for each comment
ReviewRequestsPerComment(comments) == [i \in 1..Len(comments) |-> << comments[i] >>]

\* the review-creation requests post_review makes for the comments it built
ReviewRequests(comments) == << comments >>
ReviewRequestsCopy(comments) == IF comments # << >> THEN << comments >> ELSE << >>

\* script/code_review.py: how post_review ends, given what its POST came to
post_review_ends(ho) ==
    IF ho.kind = "exception" THEN Raise("UnboundLocalError") ELSE Return(PyNone)

\* script/code_review - Copy.py: the POST is outside any try
post_review_copy_ends(ho) ==
    IF ho.kind = "exception" THEN Raise(ho.exc) ELSE Return(PyNone)

(***************************************************************************)
(* The inputs: the hosting API's file list, the backend's and the hosting  *)
(* API's answers.                                                          *)
(***************************************************************************)
relevant_extensions == {
    << ".", "p", "y" >>, << ".", "j", "s" >>, << ".", "j", "s", "x" >>,
    << ".", "t", "s" >>, << ".", "t", "s", "x" >>, << ".", "j", "a", "v", "a" >>,
    << ".", "c", "s" >>, << ".", "c" >>, << ".", "c", "p", "p" >>, << ".", "h" >>,
    << ".", "h", "p", "p" >>, << ".", "g", "o" >>, << ".", "r", "b" >>,
    << ".", "p", "h", "p" >>, << ".", "h", "t", "m", "l" >>, << ".", "c", "s", "s" >>,
    << ".", "k", "t" >>, << ".", "s", "w", "i", "f", "t" >>,
    << ".", "s", "c", "a", "l", "a" >>, << ".", "r", "s" >>, << ".", "s", "h" >>,
    << ".", "d", "a", "r", "t" >>, << ".", "s", "q", "l" >> }

\* mutant: every listed file is relevant
IsRelevantAny(f) == TRUE

\* any(file['filename'].endswith(ext) for ext in relevant_extensions)
IsRelevant(f) == \E ext \in relevant_extensions : EndsWith(f.filename, ext)

filter_relevant_files(files) == SelectSeq(files, IsRelevant)

FileNames == { << "a", ".", "p", "y" >>, << "b", ".", "j", "s" >>, << "c", ".", "g", "o" >>,
               << "r", ".", "m", "d" >> }

SamplePatches == {
    << >>,
    << " ", "a" >>,
    << "+", "a" >>,
    << "+", "+", "+", LF, "+", "a", LF, " ", "a", LF, "+", "a", "b" >> }

\* a file the filter drops is listed with one patch: its diff is never looked at
FileRecords ==
    { f \in { FileOf(n, p) : n \in FileNames, p \in SamplePatches }
               \cup { FileWithoutPatch(n) : n \in FileNames } :
        IsRelevant(f) \/ ("patch" \in DOMAIN f /\ f.patch = << "+", "a" >>) }

\* the lists the hosting API can answer with: each file once
FileLists ==
    { fs \in UNION { [1..k -> FileRecords] : k \in 0..MaxFiles } :
        \A i, j \in 1..Len(fs) : i # j => fs[i].filename # fs[j].filename }

PyText(chars) == [t |-> "str", v |-> chars]
Annotation(lineText, body) ==
    PyDict([k \in {"line", "body"} |-> IF k = "line" THEN PyText(lineText) ELSE PyStr(body)])
Choice(content) ==
    PyDict([k \in {"message"} |-> PyDict([c \in {"content"} |-> content])])
Obj(key, value) == PyDict([k \in {key} |-> value])

JsonBodies == {
    Obj("choices", PyList(<< Choice(PyStr(Sentinel)) >>)),
    Obj("choices", PyList(<< Choice(PyStr("Avoid magic numbers.")),
                             Choice(PyStr("Second choice.")) >>)),
    Obj("choices", PyList(<< Choice(PyStr("")) >>)),
    Obj("choices", PyList(<< >>)),
    Obj("choices", PyList(<< EmptyDict >>)),
    EmptyDict,
    Obj("comments", PyList(<< Annotation(<< "a" >>, "x"), Annotation(<< "b" >>, "y"),
                              Annotation(<< "z" >>, "w") >>)),
    Obj("comments", PyList(<< >>)),
    Obj("message", PyStr(Sentinel)),
    Obj("message", PyStr("Needs work.")),
    PyList(<< >>),
    PyInt(5) }

Unparsable == [parses |-> FALSE]
Parsed(json) == [parses |-> TRUE, json |-> json]

BackendOutcomes ==
    { [kind |-> "exception", exc |-> e] : e \in {"Timeout", "ConnectionError"} }
      \cup { [kind |-> "response", status |-> s, body |-> Unparsable] :
               s \in {200, 204, 401, 500} }
      \cup { [kind |-> "response", status |-> s, body |-> Parsed(j)] :
               s \in {200, 204}, j \in JsonBodies }

HostOutcomes ==
    { [kind |-> "exception", exc |-> e] : e \in {"Timeout", "ConnectionError"} }
      \cup { [kind |-> "response", status |-> s] : s \in {200, 422} }

EnvKeys == {"GITHUB_TOKEN", "GITHUB_REPOSITORY", "PR_NUMBER", "CUSTOM_SERVICE_COOKIE"}

NoOutcome == [kind |-> "none"]
NoReview == [state |-> "none"]
NoTraceback == [exc |-> "", at |-> ""]
NotCalled == [state |-> "idle"]

\* get_cookies_selenium.py: no driver yet, no cookies read, no subprocess run
NoDriver == "none"
NoCase == "none"
LoginAt(position, credentials) ==
    [pc |-> position, credentials |-> credentials, driver |-> NoDriver, quits |-> 0,
     cookies |-> << >>, i |-> 0, launches |-> << >>, case |-> NoCase, exit_code |-> {}]

\* the login script is not run
LoginOff == LoginAt("off", TRUE)

(***************************************************************************)
(* The process: module level, then main.                                   *)
(***************************************************************************)
PipelineInit ==
    /\ variant \in {"code_review", "copy"}
    /\ jsonErrIsReqExc \in BOOLEAN
    /\ env \in SUBSET EnvKeys
    /\ pc = "import"
    /\ relevant_files = << >>
    /\ idx = 0
    /\ cur = 0
    /\ diff = << >>
    /\ feedback = PyNone
    /\ outcome = NoOutcome
    /\ review = NoReview
    /\ backendCalls = << >>
    /\ reviewPosts = << >>
    /\ exit_code = {}
    /\ traceback = NoTraceback
    /\ changed_files = << >>
    /\ calls = << >>

\* the pipeline is not run: a function is called on its own
PipelineOff ==
    /\ variant = "code_review"
    /\ jsonErrIsReqExc = TRUE
    /\ env = EnvKeys
    /\ pc = "off"
    /\ relevant_files = << >>
    /\ idx = 0
    /\ cur = 0
    /\ diff = << >>
    /\ feedback = PyNone
    /\ outcome = NoOutcome
    /\ review = NoReview
    /\ backendCalls = << >>
    /\ reviewPosts = << >>
    /\ exit_code = {}
    /\ traceback = NoTraceback
    /\ changed_files = << >>
    /\ calls = << >>

\* sys.exit(code)
Exit(code) ==
    /\ pc' = "exited"
    /\ exit_code' = {code}
    /\ traceback' = traceback

\* an exception nothing catches: the traceback is printed, the status is 1
Uncaught(exc, at) ==
    /\ pc' = "exited"
    /\ exit_code' = {1}
    /\ traceback' = [exc |-> exc, at |-> at]

\* requests.get(url, headers=headers), requests.post(url, json=payload, headers=...):
\* no call passes timeout=, and the default of requests is None (wait for ever)
RequestTimeout == PyNone

NoFile == << >>
Request(to, file) == [to |-> to, file |-> file, timeout |-> RequestTimeout]

\* if not custom_service_cookie: sys.exit(1)
CheckCookie ==
    /\ pc = "import"
    /\ IF "CUSTOM_SERVICE_COOKIE" \notin env
       THEN Exit(1)
       ELSE /\ pc' = "guard"
            /\ UNCHANGED << exit_code, traceback >>
    /\ UNCHANGED << variant, jsonErrIsReqExc, env, relevant_files, idx, diff, feedback,
                    outcome, review, backendCalls, reviewPosts, cur, changed_files, calls,
                    extractCall, positionCall, publishCall,
                    login >>

\* mutant: only the hosting token is required
CheckEnvTokenOnly ==
    /\ pc = "guard"
    /\ IF "GITHUB_TOKEN" \notin env
       THEN Exit(1)
       ELSE /\ pc' = "get_files"
            /\ UNCHANGED << exit_code, traceback >>
    /\ UNCHANGED << variant, jsonErrIsReqExc, env, relevant_files, idx, diff, feedback,
                    outcome, review, backendCalls, reviewPosts, cur, changed_files, calls,
                    extractCall, positionCall, publishCall,
                    login >>

\* if not all([GITHUB_TOKEN, GITHUB_REPOSITORY, PR_NUMBER]): sys.exit(1)
CheckEnv ==
    /\ pc = "guard"
    /\ IF ~({"GITHUB_TOKEN", "GITHUB_REPOSITORY", "PR_NUMBER"} \subseteq env)
       THEN Exit(1)
       ELSE /\ pc' = "get_files"
            /\ UNCHANGED << exit_code, traceback >>
    /\ UNCHANGED << variant, jsonErrIsReqExc, env, relevant_files, idx, diff, feedback,
                    outcome, review, backendCalls, reviewPosts, cur, changed_files, calls,
                    extractCall, positionCall, publishCall,
                    login >>

\* changed_files = get_changed_files(); relevant_files = filter_relevant_files(files)
GetChangedFiles ==
    /\ pc = "get_files"
    /\ calls' = Append(calls, Request("files", NoFile))
    /\ \/ /\ Uncaught("RequestException", "get_changed_files")
          /\ UNCHANGED << changed_files, relevant_files, backendCalls, reviewPosts >>
       \/ \E listed \in FileLists :
            LET relevant == filter_relevant_files(listed)
            IN  /\ changed_files' = listed
                /\ relevant_files' = relevant
                /\ backendCalls' = [i \in 1..Len(relevant) |-> 0]
                /\ reviewPosts' = [i \in 1..Len(relevant) |-> 0]
                /\ IF relevant = << >>
                   THEN Exit(0)
                   ELSE /\ pc' = "get_commit"
                        /\ UNCHANGED << exit_code, traceback >>
    /\ UNCHANGED << variant, jsonErrIsReqExc, env, idx, diff, feedback, outcome, review,
                    cur, extractCall, positionCall, publishCall,
                    login >>

\* commit_id = get_pull_request_commit_id()
GetCommitId ==
    /\ pc = "get_commit"
    /\ calls' = Append(calls, Request("commit", NoFile))
    /\ \/ /\ Uncaught("RequestException", "get_pull_request_commit_id")
          /\ idx' = idx
       \/ /\ pc' = "loop"
          /\ idx' = 1
          /\ UNCHANGED << exit_code, traceback >>
    /\ UNCHANGED << variant, jsonErrIsReqExc, env, relevant_files, diff, feedback, outcome,
                    review, backendCalls, reviewPosts, cur, changed_files,
                    extractCall, positionCall, publishCall,
                    login >>

\* mutant: the file is sent whatever its diff
HasDiffAlways(text) == TRUE

\* if added_lines:  /  if diff:
HasDiff(text) == text # << >>

\* for file in relevant_files: the diff of the file, and whether it is sent
AnalyzeFile ==
    /\ pc = "loop"
    /\ idx <= Len(relevant_files)
    /\ LET file == relevant_files[idx]
           text == IF variant = "code_review"
                   THEN fetch_added_lines_only(file)
                   ELSE fetch_diff(file)
       IN  /\ diff' = text
           /\ IF HasDiff(text)
              THEN pc' = "send" /\ idx' = idx
              ELSE pc' = "loop" /\ idx' = idx + 1
    /\ feedback' = PyNone
    /\ outcome' = NoOutcome
    /\ review' = NoReview
    /\ cur' = idx
    /\ UNCHANGED << variant, jsonErrIsReqExc, env, relevant_files, backendCalls,
                    reviewPosts, exit_code, traceback, changed_files, calls,
                    extractCall, positionCall, publishCall,
                    login >>

\* mutant: only None keeps a result from the publisher
IsNotNone(x) == x.t # "None"

\* if feedback:
HasFeedback(x) == Truthy(x)

\* feedback = send_diff_to_openai(...); if feedback:
SendDiff ==
    /\ pc = "send"
    /\ calls' = Append(calls, Request("backend", relevant_files[idx].filename))
    /\ \E o \in BackendOutcomes :
         LET attempts == backendCalls[idx] + 1
             result == IF variant = "code_review"
                       THEN send_diff_to_openai(o, jsonErrIsReqExc)
                       ELSE send_diff_to_openai_copy(o)
         IN  /\ backendCalls' = [backendCalls EXCEPT ![idx] = attempts]
             /\ outcome' = o
             /\ IF RetryAfter(o, attempts)
                THEN /\ UNCHANGED << pc, idx, feedback, exit_code, traceback >>
                ELSE IF result.t = "raise"
                THEN /\ Uncaught(result.exc, "send_diff_to_openai")
                     /\ UNCHANGED << idx, feedback >>
                ELSE /\ feedback' = result.v
                     /\ IF HasFeedback(result.v)
                        THEN pc' = "post" /\ idx' = idx
                        ELSE pc' = "loop" /\ idx' = idx + 1
                     /\ UNCHANGED << exit_code, traceback >>
    /\ UNCHANGED << variant, jsonErrIsReqExc, env, relevant_files, diff, review,
                    reviewPosts, cur, changed_files, extractCall, positionCall, publishCall,
                    login >>

\* the comments post_review builds for the current file, or the exception it raises
BuiltComments ==
    IF variant = "code_review"
    THEN Return(review_comments(feedback, relevant_files[idx]))
    ELSE review_comments_copy(feedback, relevant_files[idx], diff)

\* the review-creation requests post_review makes with the comments it built
BuiltRequests(comments) ==
    IF variant = "code_review" THEN ReviewRequests(comments) ELSE ReviewRequestsCopy(comments)

\* post_review(feedback, commit_id, file[, diff])
PostReview ==
    /\ pc = "post"
    /\ LET file == relevant_files[idx]
           built == BuiltComments
       IN  IF built.t = "raise"
           THEN /\ Uncaught(built.exc, "post_review")
                /\ UNCHANGED << idx, review, reviewPosts, calls >>
           ELSE \E ho \in HostOutcomes :
                  LET requests == BuiltRequests(built.v)
                      ends == IF variant = "code_review"
                              THEN post_review_ends(ho)
                              ELSE post_review_copy_ends(ho)
                  IN  /\ review' = [state |-> "posted", requests |-> requests, answer |-> ho]
                      /\ reviewPosts' = [reviewPosts EXCEPT ![idx] = @ + Len(requests)]
                      /\ calls' = calls \o [k \in 1..Len(requests) |->
                                              Request("review", file.filename)]
                      /\ IF ends.t = "raise"
                         THEN /\ Uncaught(ends.exc, "post_review")
                              /\ idx' = idx
                         ELSE /\ pc' = "loop"
                              /\ idx' = idx + 1
                              /\ UNCHANGED << exit_code, traceback >>
    /\ UNCHANGED << variant, jsonErrIsReqExc, env, relevant_files, diff, feedback, outcome,
                    backendCalls, cur, changed_files, extractCall, positionCall, publishCall,
                    login >>

\* the request the process is about to make
PendingRequests ==
    CASE pc = "get_files" -> { Request("files", NoFile) }
      [] pc = "get_commit" -> { Request("commit", NoFile) }
      [] pc = "send" -> { Request("backend", relevant_files[idx].filename) }
      [] pc = "post" -> IF BuiltComments.t = "raise"
                        THEN {}
                        ELSE IF BuiltRequests(BuiltComments.v) = << >>
                        THEN {}
                        ELSE { Request("review", relevant_files[idx].filename) }
      [] OTHER -> {}

\* the server never answers a request made without a timeout: requests waits for ever
RequestHangs ==
    /\ \E r \in PendingRequests :
         /\ r.timeout = PyNone
         /\ calls' = Append(calls, r)
         /\ backendCalls' = IF r.to = "backend"
                            THEN [backendCalls EXCEPT ![idx] = @ + 1]
                            ELSE backendCalls
         /\ reviewPosts' = IF r.to = "review"
                           THEN [reviewPosts EXCEPT ![idx] = @ + 1]
                           ELSE reviewPosts
    /\ pc' = "blocked"
    /\ UNCHANGED << variant, jsonErrIsReqExc, env, relevant_files, idx, diff, feedback,
                    outcome, review, cur, exit_code, traceback, changed_files,
                    extractCall, positionCall, publishCall,
                    login >>

\* main returns after the last file: the process ends with status 0
Finish ==
    /\ pc = "loop"
    /\ idx > Len(relevant_files)
    /\ Exit(0)
    /\ UNCHANGED << variant, jsonErrIsReqExc, env, relevant_files, idx, diff, feedback,
                    outcome, review, backendCalls, reviewPosts, cur, changed_files, calls,
                    extractCall, positionCall, publishCall,
                    login >>

Init ==
    /\ PipelineInit
    /\ extractCall = NotCalled
    /\ positionCall = NotCalled
    /\ publishCall = NotCalled
    /\ login = LoginOff

Next ==
    \/ CheckCookie
    \/ CheckEnv
    \/ GetChangedFiles
    \/ GetCommitId
    \/ AnalyzeFile
    \/ SendDiff
    \/ PostReview
    \/ RequestHangs
    \/ Finish

Spec == Init /\ [][Next]_vars

(***************************************************************************)
(* fetch_added_lines_only called on its own, on every bounded patch.       *)
(***************************************************************************)
ExtractInputs ==
    { FileOf(<< "a", ".", "p", "y" >>, p) : p \in Texts(PatchChars, MaxPatchLen) }
      \cup { FileWithoutPatch(<< "a", ".", "p", "y" >>) }

InitExtract ==
    /\ PipelineOff
    /\ extractCall \in { [state |-> "called", file |-> f] : f \in ExtractInputs }
    /\ positionCall = NotCalled
    /\ publishCall = NotCalled
    /\ login = LoginOff

ExtractReturn ==
    /\ extractCall.state = "called"
    /\ extractCall' = [state |-> "returned", file |-> extractCall.file,
                       result |-> fetch_added_lines_only(extractCall.file)]
    /\ UNCHANGED << positionCall, publishCall, login, pipelineVars >>

NextExtract == ExtractReturn

SpecExtract == InitExtract /\ [][NextExtract]_vars

(***************************************************************************)
(* The position scan of post_review (Copy) on its own, on every bounded    *)
(* diff text and annotation text.                                          *)
(***************************************************************************)
DiffChars == {"+", "a", LF}
LineChars == {"+", "a"}

InitPosition ==
    /\ PipelineOff
    /\ extractCall = NotCalled
    /\ positionCall \in { [state |-> "called", diffText |-> d, lineText |-> l] :
                            d \in Texts(DiffChars, MaxDiffLen),
                            l \in Texts(LineChars, MaxLineLen) }
    /\ publishCall = NotCalled
    /\ login = LoginOff

PositionReturn ==
    /\ positionCall.state = "called"
    /\ positionCall' = [state |-> "returned", diffText |-> positionCall.diffText,
                        lineText |-> positionCall.lineText,
                        position |-> ResolvePosition(positionCall.diffText,
                                                     positionCall.lineText)]
    /\ UNCHANGED << extractCall, publishCall, login, pipelineVars >>

NextPosition == PositionReturn

SpecPosition == InitPosition /\ [][NextPosition]_vars

(***************************************************************************)
(* The comment building of post_review (Copy) on its own, on every bounded *)
(* diff text and every bounded list of annotations.                        *)
(***************************************************************************)
PublishBodies == {"x", "y"}

PublishAnnotations ==
    { Annotation(l, b) : l \in Texts(LineChars, MaxAnnLen), b \in PublishBodies }

PublishLists == UNION { [1..k -> PublishAnnotations] : k \in 0..MaxComments }

PublishFile == FileOf(<< "a", ".", "p", "y" >>, << "+", "a" >>)

InitPublish ==
    /\ PipelineOff
    /\ extractCall = NotCalled
    /\ positionCall = NotCalled
    /\ publishCall \in { [state |-> "called", comments |-> c, diffText |-> d] :
                           c \in PublishLists,
                           d \in Texts(DiffChars, MaxPublishDiffLen) }
    /\ login = LoginOff

PublishReturn ==
    /\ publishCall.state = "called"
    /\ LET built == review_comments_copy(PyList(publishCall.comments), PublishFile,
                                         publishCall.diffText)
       IN  publishCall' = [state |-> "returned", comments |-> publishCall.comments,
                           diffText |-> publishCall.diffText, built |-> built,
                           requests |-> IF built.t = "raise"
                                        THEN << >>
                                        ELSE ReviewRequestsCopy(built.v)]
    /\ UNCHANGED << extractCall, positionCall, login, pipelineVars >>

NextPublish == PublishReturn

SpecPublish == InitPublish /\ [][NextPublish]_vars

(***************************************************************************)
(* get_cookies_selenium.py: the scripted login, then the cookie retrieval  *)
(* block that runs code_review.py with the session cookie.                 *)
(***************************************************************************)
CookieName == ".AspNetCore.Cookies"
CookieNames == { CookieName, "ai_session" }
ValueChars == { "a", "=" }

Cookie(name, value) == [name |-> name, value |-> value]

\* what driver.get_cookies() can return: cookies of either name, in any order,
\* the same name possibly more than once (cookies of different paths)
BrowserCookies == { Cookie(n, v) : n \in CookieNames, v \in Texts(ValueChars, MaxValueLen) }
CookieLists == UNION { [1..k -> BrowserCookies] : k \in 0..MaxCookies }

\* f".AspNetCore.Cookies={cookie['value']}"
formatted_cookie(cookie) == << ".AspNetCore.Cookies", "=" >> \o cookie.value

\* subprocess.run(["python", "code_review.py"], env=env, check=True) with
\* env["CUSTOM_SERVICE_COOKIE"] = formatted_cookie
Launch(cookie) ==
    [args |-> << "python", "code_review.py" >>,
     CUSTOM_SERVICE_COOKIE |-> formatted_cookie(cookie)]

\* how the child process can end: an exit status, or it could not be started
SubprocessOutcomes ==
    { [kind |-> "exit", returncode |-> c] : c \in {0, 1} } \cup { [kind |-> "oserror"] }

\* check=True: a non-zero exit status raises CalledProcessError
RunRaises(o) == IF o.kind = "exit" THEN o.returncode # 0 ELSE TRUE

\* mutant: the loop goes on to the next cookie after the subprocess returned
AfterRunContinue(l) == [l EXCEPT !.pc = "loop", !.i = @ + 1, !.case = "subprocess_ok"]

\* break
AfterRun(l) == [l EXCEPT !.pc = "finally", !.case = "subprocess_ok"]

LoginRest == << extractCall, positionCall, publishCall, pipelineVars >>

InitLogin ==
    /\ PipelineOff
    /\ extractCall = NotCalled
    /\ positionCall = NotCalled
    /\ publishCall = NotCalled
    /\ login \in { LoginAt("start", c) : c \in BOOLEAN }

\* if not dex_username or not dex_password: sys.exit(1)
CheckCredentials ==
    /\ login.pc = "start"
    /\ login' = IF login.credentials
                THEN [login EXCEPT !.pc = "browser"]
                ELSE [login EXCEPT !.pc = "exited", !.exit_code = {1}]
    /\ UNCHANGED LoginRest

\* driver = webdriver.Edge(...); driver.get(url): neither is inside a try
StartBrowser ==
    /\ login.pc = "browser"
    /\ \/ login' = [login EXCEPT !.pc = "exited", !.exit_code = {1}]
       \/ login' = [login EXCEPT !.driver = "open", !.pc = "exited", !.exit_code = {1}]
       \/ login' = [login EXCEPT !.driver = "open", !.pc = "steps"]
    /\ UNCHANGED LoginRest

\* the seven login steps: each is a try whose except prints and goes on
LoginSteps ==
    /\ login.pc = "steps"
    /\ login' = [login EXCEPT !.pc = "retrieve"]
    /\ UNCHANGED LoginRest

\* cookies = driver.get_cookies()
GetCookies ==
    /\ login.pc = "retrieve"
    /\ \/ login' = [login EXCEPT !.pc = "finally", !.case = "retrieval_error"]
       \/ \E cs \in CookieLists :
            login' = [login EXCEPT !.cookies = cs, !.i = 1, !.pc = "loop"]
    /\ UNCHANGED LoginRest

\* for cookie in cookies: if cookie['name'] == '.AspNetCore.Cookies': ... else:
NextCookie ==
    /\ login.pc = "loop"
    /\ login' = IF login.i > Len(login.cookies)
                THEN [login EXCEPT !.pc = "finally", !.case = "cookie_missing"]
                ELSE IF login.cookies[login.i].name = ".AspNetCore.Cookies"
                THEN [login EXCEPT !.pc = "run"]
                ELSE [login EXCEPT !.i = @ + 1]
    /\ UNCHANGED LoginRest

\* subprocess.run(...); break  /  except Exception
RunSubprocess ==
    /\ login.pc = "run"
    /\ \E o \in SubprocessOutcomes :
         LET launched == [login EXCEPT
                            !.launches = Append(@, Launch(login.cookies[login.i]))]
         IN  login' = IF RunRaises(o)
                      THEN [launched EXCEPT !.pc = "finally",
                                            !.case = "subprocess_failure"]
                      ELSE AfterRun(launched)
    /\ UNCHANGED LoginRest

\* subprocess.run has no timeout: a child that never ends is waited for for ever
SubprocessHangs ==
    /\ login.pc = "run"
    /\ login' = [login EXCEPT
                   !.launches = Append(@, Launch(login.cookies[login.i])),
                   !.pc = "waiting"]
    /\ UNCHANGED LoginRest

\* finally: driver.quit(), then the script ends (with a traceback if quit raised)
QuitDriver ==
    /\ login.pc = "finally"
    /\ \E code \in {0, 1} :
         login' = [login EXCEPT !.driver = "quit", !.quits = @ + 1, !.pc = "exited",
                                !.exit_code = {code}]
    /\ UNCHANGED LoginRest

NextLogin ==
    \/ CheckCredentials
    \/ StartBrowser
    \/ LoginSteps
    \/ GetCookies
    \/ NextCookie
    \/ RunSubprocess
    \/ SubprocessHangs
    \/ QuitDriver

\* the interpreter keeps executing the script: a step that can be taken is taken
SpecLogin == InitLogin /\ [][NextLogin]_vars /\ WF_vars(NextLogin)

(***************************************************************************)
(* Properties.                                                             *)
(***************************************************************************)
\* C1: whatever one file's backend call or review submission comes to, the run
\* does not abort and every later file of the list is still processed.  Stated
\* here for the review submission: when the process has ended after a file's
\* review-creation POST, no later file of relevant_files is left unprocessed.
C1_LaterFilesProcessed ==
    (variant = "code_review" /\ pc = "exited" /\ review.state = "posted")
        => idx >= Len(relevant_files)

\* the backend call of file cur has ended in a timeout and send_diff_to_openai is over
TimedOut ==
    /\ outcome.kind = "exception"
    /\ outcome.exc = "Timeout"
    /\ pc # "send"

ExpectedComments ==
    IF variant = "copy" /\ feedback.t = "list" THEN Len(feedback.v) ELSE 1

PatchEmptyOrAbsent(file) == "patch" \notin DOMAIN file \/ file.patch = << >>

\* C4: for a file whose patch is empty or absent fetch_added_lines_only
\* returns the empty string, and no backend call and no review submission is
\* ever made for that file.
C4_EmptyPatchSkipped ==
    \A i \in 1..Len(relevant_files) :
        PatchEmptyOrAbsent(relevant_files[i]) =>
            /\ fetch_added_lines_only(relevant_files[i]) = << >>
            /\ backendCalls[i] = 0
            /\ reviewPosts[i] = 0

C4_Witness ==
    /\ pc = "exited"
    /\ exit_code = {0}
    /\ Len(relevant_files) = 2
    /\ cur = 2
    /\ "patch" \notin DOMAIN relevant_files[1]
    /\ "patch" \in DOMAIN relevant_files[2]
    /\ relevant_files[2].patch = << >>

\* a line that starts with '+' and not with '+++', said character by character
Qualifies(line) ==
    /\ Len(line) >= 1
    /\ line[1] = "+"
    /\ ~(Len(line) >= 3 /\ line[2] = "+" /\ line[3] = "+")

\* the k-th smallest element of a set of numbers
Nth(set, k) == CHOOSE i \in set : Cardinality({ j \in set : j <= i }) = k

Breaks(text) == { k \in 1..Len(text) : text[k] = LF }
NumLines(text) == Cardinality(Breaks(text)) + 1
NthLine(text, i) ==
    LET first == IF i = 1 THEN 1 ELSE Nth(Breaks(text), i - 1) + 1
        last == IF i = NumLines(text) THEN Len(text) ELSE Nth(Breaks(text), i) - 1
    IN  SubSeq(text, first, last)

\* the 1-based indexes of the lines that start with '+' and contain lineText
MatchingLines(text, lineText) ==
    { i \in 1..NumLines(text) :
        LET line == NthLine(text, i)
        IN  Len(line) >= 1 /\ line[1] = "+" /\ Contains(line, lineText) }

\* C6: when exactly one line of the diff starts with '+' and contains the
\* annotation's text, the position is the 1-based index of that line among all
\* the lines of the diff.
C6_PositionIsLineIndex ==
    (positionCall.state = "returned"
       /\ Cardinality(MatchingLines(positionCall.diffText, positionCall.lineText)) = 1)
        => positionCall.position
             \in MatchingLines(positionCall.diffText, positionCall.lineText)

C6_Witness ==
    /\ positionCall.state = "returned"
    /\ MatchingLines(positionCall.diffText, positionCall.lineText) = {2}
    /\ NumLines(positionCall.diffText) = 3
    /\ positionCall.position = 2

\* C7: when two or more lines of the diff start with '+' and contain the
\* annotation's text, the position is the index of the last of them.
C7_LastMatchWins ==
    (positionCall.state = "returned"
       /\ Cardinality(MatchingLines(positionCall.diffText, positionCall.lineText)) >= 2)
        => /\ positionCall.position
                \in MatchingLines(positionCall.diffText, positionCall.lineText)
           /\ \A i \in MatchingLines(positionCall.diffText, positionCall.lineText) :
                i <= positionCall.position

C7_Witness ==
    /\ positionCall.state = "returned"
    /\ MatchingLines(positionCall.diffText, positionCall.lineText) = {1, 3}
    /\ positionCall.lineText = << "a" >>
    /\ positionCall.position = 3

\* the backend answered without an error status, with a JSON object whose
\* 'choices' list is not empty and whose first element has a text as message content
ChoicesText(o) ==
    /\ o.kind = "response"
    /\ ~RaisesForStatus(o.status)
    /\ o.body.parses
    /\ o.body.json.t = "dict"
    /\ "choices" \in DOMAIN o.body.json.v
    /\ o.body.json.v["choices"].t = "list"
    /\ Len(o.body.json.v["choices"].v) > 0
    /\ o.body.json.v["choices"].v[1].t = "dict"
    /\ "message" \in DOMAIN o.body.json.v["choices"].v[1].v
    /\ o.body.json.v["choices"].v[1].v["message"].t = "dict"
    /\ "content" \in DOMAIN o.body.json.v["choices"].v[1].v["message"].v
    /\ o.body.json.v["choices"].v[1].v["message"].v["content"].t = "str"

\* C8: for such a response send_diff_to_openai (code_review.py) returns the
\* first choice's message content unchanged: the sentinel text when the content
\* is the sentinel, and otherwise exactly the content.
C8_ChoicesContentReturned ==
    (variant = "code_review" /\ pc # "send" /\ ChoicesText(outcome))
        => /\ traceback.at # "send_diff_to_openai"
           /\ feedback = outcome.body.json.v["choices"].v[1].v["message"].v["content"]

C8_Witness ==
    /\ variant = "code_review"
    /\ pc = "post"
    /\ ChoicesText(outcome)
    /\ Len(outcome.body.json.v["choices"].v) = 2
    /\ feedback = PyStr("Avoid magic numbers.")

\* C9: for an HTTP 204 answer of the backend send_diff_to_openai returns the
\* sentinel 'Everything looks good.', whatever the body (checked with a requests
\* whose JSON error is a RequestException, so that an empty body does not raise).
C9_NoContentIsClean ==
    (jsonErrIsReqExc /\ outcome.kind = "response" /\ outcome.status = 204 /\ pc # "send")
        => /\ traceback.at # "send_diff_to_openai"
           /\ feedback = PyStr(Sentinel)

\* C10: for a 200 answer whose body is not valid JSON send_diff_to_openai
\* returns the failure value None: it neither raises nor returns feedback.
C10_UnparsableIsFailure ==
    (outcome.kind = "response" /\ outcome.status = 200 /\ ~outcome.body.parses
       /\ pc # "send")
        => /\ traceback.at # "send_diff_to_openai"
           /\ feedback = PyNone

\* a 'choices' element that carries message.content
HasMessageContent(c) ==
    /\ c.t = "dict"
    /\ "message" \in DOMAIN c.v
    /\ c.v["message"].t = "dict"
    /\ "content" \in DOMAIN c.v["message"].v

\* a parsed answer of none of the recognised shapes: not an object, an object
\* without 'choices' and 'comments', or a first choice lacking message.content
Unrecognised(json) ==
    \/ json.t # "dict"
    \/ /\ json.t = "dict"
       /\ "choices" \notin DOMAIN json.v
       /\ "comments" \notin DOMAIN json.v
    \/ /\ json.t = "dict"
       /\ "choices" \in DOMAIN json.v
       /\ json.v["choices"].t = "list"
       /\ json.v["choices"].v # << >>
       /\ ~HasMessageContent(json.v["choices"].v[1])

\* C11: after a 200 answer that parses but has none of the recognised shapes,
\* send_diff_to_openai has not raised and the value it returned is not taken
\* as feedback (it is falsy, so post_review is not called with it).
C11_UnrecognisedShapeIsFailure ==
    ( /\ pc \notin {"send", "blocked"}
      /\ outcome.kind = "response"
      /\ outcome.status = 200
      /\ outcome.body.parses
      /\ Unrecognised(outcome.body.json) )
    => /\ traceback.at # "send_diff_to_openai"
       /\ ~Truthy(feedback)

\* a run with one relevant file, Clean feedback for it, and a review request
\* that the hosting API answered
CleanRun ==
    /\ Len(relevant_files) = 1
    /\ cur = 1
    /\ feedback = PyStr(Sentinel)
    /\ review.state = "posted"
    /\ review.answer.kind = "response"

SummaryPublished ==
    /\ cur >= 1
    /\ feedback.t = "str"
    /\ feedback.v # ""
    /\ feedback.v # Sentinel
    /\ pc \in {"loop", "exited"}

\* C13: once post_review has run on Summary(text) feedback, it has emitted
\* exactly one comment, at position 1, for the file's path, whose body is
\* exactly that text.
C13_SummaryOneComment ==
    SummaryPublished =>
        /\ review.state = "posted"
        /\ review.requests =
             << << [path |-> relevant_files[cur].filename, position |-> 1,
                    body |-> feedback] >> >>

\* C14: when a required configuration value (repository slug, PR number,
\* hosting token, backend cookie) is absent, no HTTP request has been made
\* (to the hosting API or the backend), the process never gets past its
\* configuration checks, and when it has exited its status is 1.
C14_MissingConfigExits ==
    env # EnvKeys =>
        /\ calls = << >>
        /\ pc \in {"import", "guard", "exited"}
        /\ pc = "exited" => exit_code = {1}

C14_Witness ==
    /\ "CUSTOM_SERVICE_COOKIE" \in env
    /\ "PR_NUMBER" \notin env
    /\ "GITHUB_TOKEN" \in env
    /\ pc = "exited"
    /\ exit_code = {1}
    /\ calls = << >>

\* an empty or absent backend result: None, '', [] or {}
EmptyResult(x) ==
    \/ x = PyNone
    \/ x = PyStr("")
    \/ x = PyList(<< >>)
    \/ x = EmptyDict

\* send_diff_to_openai has returned for the current file
SendReturned ==
    /\ cur >= 1
    /\ outcome # NoOutcome
    /\ pc \in {"post", "loop", "exited"}
    /\ traceback.at # "send_diff_to_openai"

\* C15: post_review is never about to be called, and has never been called,
\* with an empty or absent result; when send_diff_to_openai returned such a
\* result for a file, no review request is built or posted for that file.
C15_NoReviewOnEmptyResult ==
    /\ pc = "post" => ~EmptyResult(feedback)
    /\ review.state = "posted" => ~EmptyResult(feedback)
    /\ (SendReturned /\ EmptyResult(feedback)) =>
          /\ pc # "post"
          /\ review = NoReview
          /\ reviewPosts[cur] = 0
          /\ \A k \in 1..Len(calls) :
               calls[k].to = "review" => calls[k].file # relevant_files[cur].filename

C15_Witness ==
    /\ SendReturned
    /\ feedback = EmptyDict
    /\ outcome.kind = "response"
    /\ pc = "loop"
    /\ idx = cur + 1
    /\ reviewPosts[cur] = 0

\* C16: no operation blocks indefinitely: the process is never left waiting
\* for ever on an HTTP request (changed-files GET, head-commit GET, backend
\* POST, review POST) that a remote service does not answer, which a finite
\* timeout on the request would rule out.
C16_NoRequestBlocks ==
    pc = "blocked" => calls[Len(calls)].timeout # PyNone

\* the 'line' text and the 'body' of the k-th annotation post_review was given
LineTextOf(k) == publishCall.comments[k].v["line"].v
BodyOf(k) == publishCall.comments[k].v["body"]

\* no line of the diff starts with '+' and contains the k-th annotation's text
Unmatched(k) == MatchingLines(publishCall.diffText, LineTextOf(k)) = {}

\* C17: when no line of the diff both starts with '+' and contains an
\* annotation's text, the comment post_review builds for that annotation has
\* position 0, carries the annotation's body, and is in the one review request
\* that is submitted.
C17_UnmatchedAtZero ==
    publishCall.state = "returned" =>
        \A k \in 1..Len(publishCall.comments) :
            Unmatched(k) =>
                /\ publishCall.built.t = "return"
                /\ Len(publishCall.built.v) = Len(publishCall.comments)
                /\ publishCall.built.v[k].position = 0
                /\ publishCall.built.v[k].body = BodyOf(k)
                /\ publishCall.requests = << publishCall.built.v >>

C17_Witness ==
    /\ publishCall.state = "returned"
    /\ Len(publishCall.comments) = 2
    /\ ~Unmatched(1)
    /\ Unmatched(2)
    /\ publishCall.built.v[1].position = 2
    /\ publishCall.built.v[2].position = 0
    /\ Len(publishCall.requests[1]) = 2

\* a transient failure of a backend request: a network error, a timeout, or an
\* error status
Transient(o) ==
    \/ o.kind = "exception"
    \/ o.kind = "response" /\ RaisesForStatus(o.status)

\* the requester has reached Succeeded or Failed for file i
RequestOver(i) ==
    /\ backendCalls[i] >= 1
    /\ ~(i = idx /\ pc = "send")

\* the backend requests one file can get: the single requests.post, no loop
MaxAttempts == 1

\* C18: per file, a backend request is sent again (Retrying -> Sent) only
\* from a request of that file that failed transiently, a file gets a bounded
\* number of requests, and once the requester has reached Succeeded or Failed
\* for a file no further backend request is sent for it.
C18_RequesterLifecycle ==
    /\ [](\A i \in DOMAIN backendCalls : backendCalls[i] <= MaxAttempts)
    /\ [][\A i \in DOMAIN backendCalls :
            /\ backendCalls'[i] \in {backendCalls[i], backendCalls[i] + 1}
            /\ (backendCalls[i] >= 1 /\ backendCalls'[i] > backendCalls[i])
                  => (i = cur /\ pc = "send" /\ Transient(outcome))
            /\ RequestOver(i) => backendCalls'[i] = backendCalls[i]]_vars

C18_Witness ==
    /\ Len(relevant_files) = 2
    /\ backendCalls = << 1, 1 >>
    /\ reviewPosts = << 1, 0 >>
    /\ cur = 2
    /\ Transient(outcome)
    /\ feedback = PyNone
    /\ pc = "exited"
    /\ exit_code = {0}

\* the filename ends with one of the extensions listed in filter_relevant_files:
\* one of its suffixes is a listed extension
HasListedExtension(name) ==
    \E n \in 1..Len(name) : SubSeq(name, n, Len(name)) \in relevant_extensions

IsBackendCall(c) == c.to = "backend"

\* the files of the backend requests made so far, in the order of the requests
BackendFiles == [k \in 1..Len(SelectSeq(calls, IsBackendCall)) |->
                   SelectSeq(calls, IsBackendCall)[k].file]

\* where the hosting API listed the file of that name
ListedAt(name) == { i \in 1..Len(changed_files) : changed_files[i].filename = name }

\* C19: every backend request made so far is for a file the hosting API listed
\* whose filename ends with a listed extension; the files of the backend
\* requests appear in the order in which the API listed them, each at most
\* once; no backend request and no review request is for a file with another
\* extension.
C19_OnlyRelevantFilesInOrder ==
    /\ \A k \in 1..Len(calls) :
         calls[k].to \in {"backend", "review"} =>
            /\ HasListedExtension(calls[k].file)
            /\ ListedAt(calls[k].file) # {}
    /\ \A k, l \in 1..Len(calls) :
         (k < l /\ IsBackendCall(calls[k]) /\ IsBackendCall(calls[l])) =>
            \A i \in ListedAt(calls[k].file), j \in ListedAt(calls[l].file) : i < j

C19_Witness ==
    /\ Len(changed_files) = 2
    /\ ~HasListedExtension(changed_files[1].filename)
    /\ changed_files[1].patch # << >>
    /\ HasListedExtension(changed_files[2].filename)
    /\ BackendFiles = << changed_files[2].filename >>
    /\ reviewPosts = << 1 >>
    /\ pc = "exited"
    /\ exit_code = {0}

\* C20: for every diff text and every list of annotations, post_review builds
\* one comment per annotation, in annotation order (the k-th comment carries
\* the k-th annotation's body and the file's path), equal positions are not
\* merged, each position lies in 0..L where L is the number of elements of
\* diff.split('\n'), and a non-zero position is the index of a line that
\* starts with '+' and contains that annotation's text.
C20_PositionsInRange ==
    publishCall.state = "returned" =>
        /\ publishCall.built.t = "return"
        /\ Len(publishCall.built.v) = Len(publishCall.comments)
        /\ \A k \in 1..Len(publishCall.comments) :
             LET p == publishCall.built.v[k].position
             IN  /\ p \in 0..NumLines(publishCall.diffText)
                 /\ p # 0 => p \in MatchingLines(publishCall.diffText, LineTextOf(k))
                 /\ publishCall.built.v[k].body = BodyOf(k)
                 /\ publishCall.built.v[k].path = PublishFile.filename

C20_Witness ==
    /\ publishCall.state = "returned"
    /\ Len(publishCall.built.v) = 2
    /\ publishCall.built.v[1].position = 2
    /\ publishCall.built.v[2].position = 2
    /\ publishCall.built.v[1].body = PyStr("y")
    /\ publishCall.built.v[2].body = PyStr("x")
    /\ LineTextOf(1) # LineTextOf(2)

\* the indexes of the cookies named '.AspNetCore.Cookies' that get_cookies returned
Found == { k \in 1..Len(login.cookies) : login.cookies[k].name = CookieName }

\* the cookie retrieval block has ended in one of its cases: retrieval error,
\* cookie missing, subprocess failure, or subprocess success
BlockEnded == login.case # NoCase

\* C21: the review pipeline subprocess is launched at most once per run, only
\* when a cookie named '.AspNetCore.Cookies' was found, as python
\* code_review.py with CUSTOM_SERVICE_COOKIE equal to '.AspNetCore.Cookies='
\* followed by the value of that cookie (the first of that name); the driver
\* is never quit twice, the script does not end after the block without
\* having quit it, and in every case in which the block ends (cookie missing,
\* subprocess failure, retrieval error, success) the driver is quit afterwards.
C21_LaunchOnceThenQuit ==
    /\ [](Len(login.launches) <= 1)
    /\ [](login.launches # << >> =>
            /\ Found # {}
            /\ \E k \in Found :
                 /\ \A j \in Found : k <= j
                 /\ login.launches[1].args = << "python", "code_review.py" >>
                 /\ login.launches[1].CUSTOM_SERVICE_COOKIE
                      = << CookieName, "=" >> \o login.cookies[k].value)
    /\ [](login.quits <= 1)
    /\ []((BlockEnded /\ login.pc = "exited") => (login.quits = 1 /\ login.driver = "quit"))
    /\ (BlockEnded ~> login.quits = 1)

C21_Witness ==
    /\ login.pc = "exited"
    /\ login.case = "subprocess_ok"
    /\ Found = {1, 2}
    /\ login.cookies[1].value = << "=" >>
    /\ login.cookies[2].value = << "a" >>
    /\ Len(login.launches) = 1
    /\ login.launches[1].CUSTOM_SERVICE_COOKIE = << ".AspNetCore.Cookies", "=", "=" >>
    /\ login.quits = 1
====
